---- MODULE Spec2Model ----
(***************************************************************************)
(* TopDownDecoder of src/models/bottom_up_top_down.py as a state machine.  *)
(*                                                                         *)
(* Spec is one beam_search call of a constructed decoder: Init is the      *)
(* state behind __init__ and the first statements of beam_search (lines    *)
(* 152-161), BeamSearchStart is the code in front of the step loop (lines  *)
(* 163-188), every loop iteration runs through the labels forward -> topk  *)
(* -> retire, and Finalize is the code behind the loop (lines 264-285).    *)
(* SpecScenario is Spec for the one call of the end-to-end scenario.       *)
(* SpecForward is one call of the decode loop TopDownDecoder.forward.      *)
(*                                                                         *)
(* Tensors are sequences of rows; index tensors hold 0-based indices as in *)
(* the code and are applied with Index.  A decoder-state row is modelled   *)
(* by the sequence of previous-word tokens that were fed into it: the step *)
(* function is a pure function, so a row's value is determined by this     *)
(* history and the row's image.  Vocabulary scores (the output of the      *)
(* linear layer PredictWord) are quantised to 0..MaxScore.                 *)
(* An exception raised by the code is the terminal state pc = "error".     *)
(***************************************************************************)
EXTENDS Integers, Sequences, FiniteSets, TLC

\* ---------------------------------------------------------------- bounds
MaxBeamSize == 5
MaxCaptionLen == 3
MaxScore == 1
MaxBatchSize == 2
MaxEpochs == 3
MaxMetric == 2

VARIABLES
    pc,                  \* position in beam_search / forward
    word_map,            \* self.word_map: position i holds the token of index i-1
    max_caption_len,     \* argument of beam_search / self.max_caption_len
    image_features,      \* running image features, one row per beam (batch) row
    v_mean,              \* mean-pooled image features
    prev_words,
    scores,              \* beam_search: flattened summed scores handed to topk;
                         \* forward: the output buffer, scores[i][t] a score row
    \* ---- beam_search only
    beam_size,           \* argument
    store_alphas,        \* argument
    topkTies,            \* order torch.topk gives equal values in this build
    step,                \* loop variable; -1 while the loop body never ran
    current_beam_width,
    top_k_sequences,
    top_k_scores,
    seqs_alpha,
    states,              \* <<h1, c1, h2, c2>>, each a sequence of rows
    y_out,               \* the slice y_out[:, step, :] written last
    top_k_words,
    prev_seq_inds,
    next_words,
    incomplete_inds,
    complete_inds,
    complete_seqs,
    complete_seqs_alpha,
    complete_seqs_scores,
    ranked,              \* sorted(zip(complete_seqs_scores, complete_seqs))
    sorted_sequences,    \* the returned list
    sorted_alphas,       \* the second returned list (store_alphas)
    src,                 \* history: for each parallel array, the row of the
                         \* step's start that each of its rows was taken from
    \* ---- forward only
    training,            \* self.training
    teacher_forcing_ratio, \* self.teacher_forcing_ratio, in halves: 0, 1, 2
    batch_size,
    target_sequences,
    decode_lengths,
    t,                   \* loop variable
    state,               \* <<h1, c1, h2, c2>>, each a sequence of rows
    scores_for_timestep,
    hist,                \* history: the lengths handed in and, for each
                         \* forward_step call, what it gave and what was chosen
    caller,              \* the names scores, decode_lengths, alphas of the
                         \* epoch function that called the decoder
    \* ---- the decoder's parameters
    h1, c1, h2, c2,      \* self.h1 .. self.c2, the stored initial state vectors
    \* ---- train.main only
    model_name,
    checkpoint,          \* argument: None or the loaded dictionary
    epochs,              \* argument
    epochs_early_stopping, \* argument
    start_epoch,
    epoch,               \* loop variable
    epochs_since_last_improvement,
    best_generation_metric_score,
    current_generation_metric_score,
    train_images_loader, \* bound by the data-loader branches or not at all
    exception,           \* what main raised
    epoch_log            \* history: one record per epoch that main ran

\* what a beam_search call never touches
decodeVars == <<training, teacher_forcing_ratio, batch_size, target_sequences,
                decode_lengths, t, state, scores_for_timestep, hist, caller>>

paramVars == <<h1, c1, h2, c2>>

mainVars == <<model_name, checkpoint, epochs, epochs_early_stopping, start_epoch,
              epoch, epochs_since_last_improvement, best_generation_metric_score,
              current_generation_metric_score, train_images_loader, exception,
              epoch_log>>

fixedVars == <<word_map, store_alphas, decodeVars, paramVars, mainVars>>

alphaVars == <<seqs_alpha, complete_seqs_alpha, sorted_alphas>>

\* what a forward call never touches
beamVars == <<beam_size, store_alphas, topkTies, step, current_beam_width,
              top_k_sequences, top_k_scores, seqs_alpha, states, y_out,
              top_k_words, prev_seq_inds, next_words, incomplete_inds,
              complete_inds, complete_seqs, complete_seqs_alpha,
              complete_seqs_scores, ranked, sorted_sequences, sorted_alphas, src>>

vars == <<pc, word_map, max_caption_len, image_features, v_mean, prev_words,
          scores, beamVars, decodeVars, paramVars, mainVars>>

\* ------------------------------------------------------------ vocabulary
\* a well-formed word map: token string -> index
WordMap == <<"<pad>", "<start>", "<end>", "cat">>

\* the word map of the end-to-end scenario
ScenarioWordMap == <<"<pad>", "<start>", "<end>", "cat", "dog">>

\* a word map in which the token tok was never entered
WithoutToken(map, tok) == SelectSeq(map, LAMBDA w : w # tok)

\* the word maps a decoder is constructed with
WordMaps ==
    {WordMap, WithoutToken(WordMap, "<start>"), WithoutToken(WordMap, "<end>")}

\* tok in self.word_map (a missing key raises KeyError)
HasToken(tok) == \E i \in 1..Len(word_map) : word_map[i] = tok

\* self.vocab_size = len(word_map)
vocab_size == Len(word_map)

\* self.word_map[tok]
WordIndex(tok) == (CHOOSE i \in 1..Len(word_map) : word_map[i] = tok) - 1
TOKEN_START == WordIndex("<start>")
TOKEN_END == WordIndex("<end>")

ScoreVals == 0..MaxScore
TieOrders == {"first", "last"}
StateNames == <<"h1", "c1", "h2", "c2">>

\* ------------------------------------------------------- tensor helpers
\* tensor[idx] with an index tensor (or list) idx of 0-based row numbers
Index(arr, idx) == [i \in 1..Len(idx) |-> arr[idx[i] + 1]]

\* idx is a valid index for arr (otherwise indexing raises IndexError)
InRange(arr, idx) == \A i \in 1..Len(idx) : idx[i] >= 0 /\ idx[i] < Len(arr)

\* 0, 1, ..., n-1
Arange(n) == [i \in 1..n |-> i - 1]

\* torch.full((n,), v) / tensor.repeat(n, 1) / tensor.expand(n, ...)
Full(n, v) == [i \in 1..n |-> v]

Last(s) == s[Len(s)]

\* mutant: no row is taken out of the beam
IncompleteInds_EveryRow(words) == Arange(Len(words))

\* torch.nonzero(next_words != end).view(-1).tolist()
IncompleteInds(words) ==
    SelectSeq(Arange(Len(words)), LAMBDA j : words[j + 1] # TOKEN_END)

\* mutant: the complete rows are looked up with the start token
CompleteInds_StartToken(words) ==
    SelectSeq(Arange(Len(words)), LAMBDA j : words[j + 1] = TOKEN_START)

\* torch.nonzero(next_words == end).view(-1).tolist()
CompleteInds(words) ==
    SelectSeq(Arange(Len(words)), LAMBDA j : words[j + 1] = TOKEN_END)

\* torch.argmax(y, dim=1) for one row: 0-based index of the first maximum
ArgMax(row) ==
    (CHOOSE i \in 1..Len(row) :
        /\ \A j \in 1..Len(row) : row[j] <= row[i]
        /\ \A j \in 1..(i - 1) : row[j] < row[i]) - 1

\* mutant: largest=False
TopKRanksBefore_Smallest(flat, ties, i, j) ==
    \/ flat[i] < flat[j]
    \/ flat[i] = flat[j] /\ (IF ties = "first" THEN i < j ELSE i > j)

\* flat.topk(k, 0, largest=True, sorted=True): the 0-based indices of the k
\* largest entries, largest first
TopKRanksBefore(flat, ties, i, j) ==
    \/ flat[i] > flat[j]
    \/ flat[i] = flat[j] /\ (IF ties = "first" THEN i < j ELSE i > j)

\* the 0-based indices of the k entries that rank first among those not taken
RECURSIVE TopKFrom(_, _, _, _)
TopKFrom(flat, k, ties, taken) ==
    IF k = 0 THEN <<>>
    ELSE LET rest == (1..Len(flat)) \ taken
             best == CHOOSE i \in rest :
                        \A j \in rest : j = i \/ TopKRanksBefore(flat, ties, i, j)
         IN  <<best - 1>> \o TopKFrom(flat, k - 1, ties, taken \cup {best})

\* mutant: the best entry is taken k times
TopKIndices_BestOnly(flat, k, ties) ==
    [i \in 1..k |-> TopKFrom(flat, 1, ties, {})[1]]

TopKIndices(flat, k, ties) == TopKFrom(flat, k, ties, {})

\* top_k_words / vocab_size (integer tensors: integer division)
SourceRow(f) == f \div vocab_size

\* top_k_words % vocab_size
NextWord(f) == f % vocab_size

\* top_k_scores.unsqueeze(1).expand_as(scores) + scores
AddScores(cum, y) ==
    [r \in 1..Len(y) |-> [w \in 1..vocab_size |-> cum[r] + y[r][w]]]

\* matrix.view(-1)
Flatten(m) ==
    [f \in 1..(Len(m) * vocab_size) |->
        m[((f - 1) \div vocab_size) + 1][((f - 1) % vocab_size) + 1]]

\* mutant: the first step looks at all branches too
BranchScores_AllBranches(m, stp) == Flatten(m)

\* "if step == 0: scores = scores[0]", then .view(-1)
BranchScores(m, stp) == IF stp = 0 THEN m[1] ELSE Flatten(m)

\* mutant: the new word is not concatenated
AppendWords_NoCat(seqs, rows, words) ==
    [i \in 1..Len(rows) |-> seqs[rows[i] + 1]]

\* torch.cat((top_k_sequences[prev_seq_inds], next_words.unsqueeze(1)), dim=1)
AppendWords(seqs, rows, words) ==
    [i \in 1..Len(rows) |-> Append(seqs[rows[i] + 1], words[i])]

\* mutant: the width is miscounted by one
NewBeamWidth_OffByOne(inc) == Len(inc) + 1

\* current_beam_width = len(incomplete_inds)
NewBeamWidth(inc) == Len(inc)

\* mutant: states and features are cut down with incomplete_inds alone
SurvivorRows_NoSource(prev, inc) == inc

\* prev_seq_inds[incomplete_inds]
SurvivorRows(prev, inc) == Index(prev, inc)

\* ------------------------------------------------------ Python's sorted
\* list < list: lexicographic
ListLess(a, b) ==
    LET n == IF Len(a) < Len(b) THEN Len(a) ELSE Len(b)
        D == {i \in 1..n : a[i] # b[i]}
    IN  IF D = {} THEN Len(a) < Len(b)
        ELSE LET d == CHOOSE i \in D : \A j \in D : i <= j IN a[d] < b[d]

\* (score, sequence) < (score, sequence): tuples compare element by element
TupleLess(p, q) == p[1] < q[1] \/ (p[1] = q[1] /\ ListLess(p[2], q[2]))

\* zip(complete_seqs_scores, complete_seqs)
Zip(a, b) ==
    [i \in 1..(IF Len(a) < Len(b) THEN Len(a) ELSE Len(b)) |-> <<a[i], b[i]>>]

\* mutant: reverse=True is missing
SortedReverse_Ascending(pairs) ==
    LET pos(i) == Cardinality({j \in 1..Len(pairs) : TupleLess(pairs[j], pairs[i])})
                  + Cardinality({j \in 1..(i - 1) : pairs[j] = pairs[i]}) + 1
    IN  [r \in 1..Len(pairs) |-> pairs[CHOOSE i \in 1..Len(pairs) : pos(i) = r]]

\* sorted(pairs, reverse=True): descending, equal elements keep their order
SortedReverse(pairs) ==
    LET pos(i) == Cardinality({j \in 1..Len(pairs) : TupleLess(pairs[i], pairs[j])})
                  + Cardinality({j \in 1..(i - 1) : pairs[j] = pairs[i]}) + 1
    IN  [r \in 1..Len(pairs) |-> pairs[CHOOSE i \in 1..Len(pairs) : pos(i) = r]]

\* [sequence for _, sequence in ...]
Sequences2nd(pairs) == [i \in 1..Len(pairs) |-> pairs[i][2]]

\* ------------------------------------------------------ the step function
\* What one row of forward_step depends on
StepInput(i) ==
    <<states[1][i], states[2][i], states[3][i], states[4][i],
      prev_words[i], v_mean[i], image_features[i]>>

\* forward_step needs the same number of rows in all its inputs: torch.cat
\* in AttentionLSTM.forward and the sum in VisualAttention.forward
RowsAgree ==
    /\ Len(prev_words) = Len(states[1])
    /\ Len(v_mean) = Len(states[1])
    /\ Len(image_features) = Len(states[1])

\* ------------------------------------------------------- init_inference
\* torch.zeros(1, size) of __init__ (lines 50-53): a state row that no word
\* was fed into
ZeroState == <<>>

\* mutant: the rows carry a word that was fed into them before
InitInference_Stale(n) ==
    [state |-> <<Full(n, <<0>>), Full(n, <<0>>), Full(n, <<0>>), Full(n, <<0>>)>>,
     start_word |-> Full(n, TOKEN_START)]

\* init_inference: the start word and the stored vectors, repeated n times
InitInference(n) ==
    [state |-> <<Full(n, h1), Full(n, c1), Full(n, h2), Full(n, c2)>>,
     start_word |-> Full(n, TOKEN_START)]

\* ------------------------------------------------------------------ Init
\* the parameters h1, c1, h2, c2 behind __init__
InitParameters ==
    /\ h1 = ZeroState
    /\ c1 = ZeroState
    /\ h2 = ZeroState
    /\ c2 = ZeroState

\* Python's None, and a name that is not bound
None == [kind |-> "None"]
Unbound == [kind |-> "unbound"]
Value(v) == [kind |-> "value", value |-> v]

\* train.main is not running
MainIdle ==
    /\ model_name = ""
    /\ checkpoint = None
    /\ epochs = 0
    /\ epochs_early_stopping = 0
    /\ start_epoch = 0
    /\ epoch = -1
    /\ epochs_since_last_improvement = 0
    /\ best_generation_metric_score = 0
    /\ current_generation_metric_score = 0
    /\ train_images_loader = Unbound
    /\ exception = ""
    /\ epoch_log = <<>>

SrcIdentity(n) ==
    [seqs |-> Arange(n), scores |-> Arange(n), states |-> Arange(n), feats |-> Arange(n)]

\* no forward call is under way
DecodeIdle ==
    /\ training = FALSE
    /\ teacher_forcing_ratio = 0
    /\ batch_size = 0
    /\ target_sequences = <<>>
    /\ decode_lengths = <<>>
    /\ t = -1
    /\ state = <<>>
    /\ scores_for_timestep = <<>>
    /\ hist = [supplied |-> <<>>, calls |-> <<>>]
    /\ caller = [scores |-> Unbound, decode_lengths |-> Unbound, alphas |-> Unbound]

\* the locals of beam_search that are not bound yet
BeamLocalsUnbound ==
    /\ top_k_sequences = <<>>
    /\ top_k_scores = <<>>
    /\ seqs_alpha = <<>>
    /\ complete_seqs = <<>>
    /\ complete_seqs_alpha = <<>>
    /\ complete_seqs_scores = <<>>
    /\ states = <<>>
    /\ prev_words = <<>>
    /\ v_mean = <<>>
    /\ y_out = <<>>
    /\ scores = <<>>
    /\ top_k_words = <<>>
    /\ prev_seq_inds = <<>>
    /\ next_words = <<>>
    /\ incomplete_inds = <<>>
    /\ complete_inds = <<>>
    /\ ranked = <<>>
    /\ sorted_sequences = <<>>
    /\ sorted_alphas = <<>>
    /\ step = -1

\* __init__ (lines 17-53: the word map is stored, none of its keys is looked
\* up) and lines 152-161 of a beam_search call with the given arguments
InitCall(maps, sizes, lens, alphas) ==
    /\ word_map \in maps
    /\ beam_size \in sizes
    /\ max_caption_len \in lens
    /\ store_alphas \in alphas
    /\ topkTies \in TieOrders
    /\ current_beam_width = beam_size
    /\ image_features = Full(beam_size, "image")
    /\ src = SrcIdentity(beam_size)
    /\ BeamLocalsUnbound
    /\ DecodeIdle
    /\ InitParameters
    /\ MainIdle
    /\ pc = "start"

Init == InitCall(WordMaps, 0..MaxBeamSize, 1..MaxCaptionLen, BOOLEAN)

\* --------------------------------------------------------------- actions
\* lines 163-190: the tensors of the beam, init_inference, the loop header
BeamSearchStart ==
    /\ pc = "start"
    /\ HasToken("<start>")
    /\ top_k_sequences' = Full(beam_size, <<TOKEN_START>>)
    /\ top_k_scores' = Full(beam_size, 0)
    /\ seqs_alpha' = IF store_alphas THEN Full(beam_size, <<"ones">>) ELSE seqs_alpha
    /\ states' = InitInference(beam_size).state
    /\ prev_words' = InitInference(beam_size).start_word
    /\ v_mean' = Full(beam_size, "mean(image)")
    /\ IF max_caption_len - 1 > 0
         THEN step' = 0 /\ pc' = "forward"
         ELSE step' = step /\ pc' = "exited"
    /\ UNCHANGED <<fixedVars, complete_seqs_alpha, sorted_alphas, beam_size,
                   max_caption_len, topkTies, current_beam_width, image_features,
                   y_out, scores, top_k_words, prev_seq_inds, next_words,
                   incomplete_inds, complete_inds, complete_seqs,
                   complete_seqs_scores, ranked, sorted_sequences, src>>

\* line 165 raises KeyError: the word map has no start token
BeamSearchStartKeyError ==
    /\ pc = "start"
    /\ ~HasToken("<start>")
    /\ pc' = "error"
    /\ UNCHANGED <<fixedVars, alphaVars, beam_size, max_caption_len, topkTies, step,
                   current_beam_width, image_features, v_mean, top_k_sequences,
                   top_k_scores, states, prev_words, y_out, scores, top_k_words,
                   prev_seq_inds, next_words, incomplete_inds, complete_inds,
                   complete_seqs, complete_seqs_scores, ranked, sorted_sequences, src>>

\* the score rows the step function may give for one input row
ScoreRows == [1..vocab_size -> ScoreVals]

\* lines 191-206: forward_step, update_previous_word (inference mode), add
\* the cumulative scores; the first step looks at one branch only.  The step
\* function gives each row a score row out of rowset.
StepWith(rowset) ==
    /\ pc = "forward"
    /\ RowsAgree
    /\ Len(states[1]) > 0
    /\ LET n == Len(states[1])
           \* rows with equal inputs get equal outputs: one score vector for
           \* each class of rows, named by its first row
           first == [i \in 1..n |->
                       CHOOSE j \in 1..i :
                          /\ StepInput(j) = StepInput(i)
                          /\ \A l \in 1..(j - 1) : StepInput(l) # StepInput(i)]
           classes == {first[i] : i \in 1..n}
           fed == [k \in 1..Len(StateNames) |->
                      [i \in 1..n |-> Append(states[k][i], prev_words[i])]]
       IN  \E f \in [classes -> rowset] :
              LET y == [i \in 1..n |-> f[first[i]]]
              IN  /\ y_out' = y
                  /\ prev_words' = [i \in 1..n |-> ArgMax(y[i])]
                  /\ states' = fed
                  /\ scores' = BranchScores(AddScores(top_k_scores, y), step)
                  /\ src' = SrcIdentity(n)
    /\ pc' = "topk"
    /\ UNCHANGED <<fixedVars, alphaVars, beam_size, max_caption_len, topkTies, step,
                   current_beam_width, image_features, v_mean, top_k_sequences,
                   top_k_scores, top_k_words, prev_seq_inds, next_words,
                   incomplete_inds, complete_inds, complete_seqs,
                   complete_seqs_scores, ranked, sorted_sequences>>

\* a step with any step function
ForwardStep == StepWith(ScoreRows)

\* forward_step raises RuntimeError: its inputs differ in their row count
ForwardStepSizeMismatch ==
    /\ pc = "forward"
    /\ ~RowsAgree
    /\ pc' = "error"
    /\ UNCHANGED <<fixedVars, alphaVars, beam_size, max_caption_len, topkTies, step,
                   current_beam_width, image_features, v_mean, top_k_sequences,
                   top_k_scores, states, prev_words, y_out, scores, top_k_words,
                   prev_seq_inds, next_words, incomplete_inds, complete_inds,
                   complete_seqs, complete_seqs_scores, ranked, sorted_sequences, src>>

\* line 206 raises IndexError (if forward_step did not raise before): a beam
\* of no rows has no first branch
ForwardStepNoRows ==
    /\ pc = "forward"
    /\ RowsAgree
    /\ Len(states[1]) = 0
    /\ pc' = "error"
    /\ UNCHANGED <<fixedVars, alphaVars, beam_size, max_caption_len, topkTies, step,
                   current_beam_width, image_features, v_mean, top_k_sequences,
                   top_k_scores, states, prev_words, y_out, scores, top_k_words,
                   prev_seq_inds, next_words, incomplete_inds, complete_inds,
                   complete_seqs, complete_seqs_scores, ranked, sorted_sequences, src>>

\* lines 209-220: top k of the flattened scores, decode, extend the sequences
TopK ==
    /\ pc = "topk"
    /\ current_beam_width <= Len(scores)
    /\ LET words == TopKIndices(scores, current_beam_width, topkTies)
           rows == [i \in 1..Len(words) |-> SourceRow(words[i])]
           nxt == [i \in 1..Len(words) |-> NextWord(words[i])]
       IN  /\ top_k_words' = words
           /\ top_k_scores' = Index(scores, words)
           /\ prev_seq_inds' = rows
           /\ next_words' = nxt
           /\ top_k_sequences' = AppendWords(top_k_sequences, rows, nxt)
           /\ src' = [src EXCEPT !.seqs = Index(src.seqs, rows),
                                 !.scores = rows]
    /\ pc' = "retire"
    /\ UNCHANGED <<fixedVars, alphaVars, beam_size, max_caption_len, topkTies, step,
                   current_beam_width, image_features, v_mean, states, prev_words,
                   y_out, scores, incomplete_inds, complete_inds, complete_seqs,
                   complete_seqs_scores, ranked, sorted_sequences>>

\* topk raises RuntimeError: k is larger than the number of entries
TopKOutOfRange ==
    /\ pc = "topk"
    /\ current_beam_width > Len(scores)
    /\ pc' = "error"
    /\ UNCHANGED <<fixedVars, alphaVars, beam_size, max_caption_len, topkTies, step,
                   current_beam_width, image_features, v_mean, top_k_sequences,
                   top_k_scores, states, prev_words, y_out, scores, top_k_words,
                   prev_seq_inds, next_words, incomplete_inds, complete_inds,
                   complete_seqs, complete_seqs_scores, ranked, sorted_sequences, src>>

\* line 227 raises UnboundLocalError: alpha is read and never assigned
\* (forward_step returns the scores and the states only)
StoreAlphasUnbound ==
    /\ pc = "retire"
    /\ store_alphas
    /\ pc' = "error"
    /\ UNCHANGED <<fixedVars, alphaVars, beam_size, max_caption_len, topkTies, step,
                   current_beam_width, image_features, v_mean, top_k_sequences,
                   top_k_scores, states, prev_words, y_out, scores, top_k_words,
                   prev_seq_inds, next_words, incomplete_inds, complete_inds,
                   complete_seqs, complete_seqs_scores, ranked, sorted_sequences, src>>

\* line 237 raises KeyError: the word map has no end token
RetireKeyError ==
    /\ pc = "retire"
    /\ ~store_alphas
    /\ ~HasToken("<end>")
    /\ pc' = "error"
    /\ UNCHANGED <<fixedVars, alphaVars, beam_size, max_caption_len, topkTies, step,
                   current_beam_width, image_features, v_mean, top_k_sequences,
                   top_k_scores, states, prev_words, y_out, scores, top_k_words,
                   prev_seq_inds, next_words, incomplete_inds, complete_inds,
                   complete_seqs, complete_seqs_scores, ranked, sorted_sequences, src>>

\* lines 226-260 and the loop header: set the complete sequences aside,
\* shrink the beam, break or go on with the incomplete sequences (the code
\* for store_alphas behind line 227 is never reached)
Retire ==
    /\ pc = "retire"
    /\ ~store_alphas
    /\ HasToken("<end>")
    /\ LET inc == IncompleteInds(next_words)
           com == CompleteInds(next_words)
           rows == SurvivorRows(prev_seq_inds, inc)
       IN  /\ incomplete_inds' = inc
           /\ complete_inds' = com
           /\ complete_seqs' = complete_seqs \o Index(top_k_sequences, com)
           /\ complete_seqs_scores' = complete_seqs_scores \o Index(top_k_scores, com)
           /\ current_beam_width' = NewBeamWidth(inc)
           /\ IF NewBeamWidth(inc) = 0
                THEN /\ pc' = "exited"
                     /\ UNCHANGED <<step, top_k_sequences, states, image_features,
                                    top_k_scores, src>>
                ELSE /\ top_k_sequences' = Index(top_k_sequences, inc)
                     /\ states' = [k \in 1..Len(StateNames) |-> Index(states[k], rows)]
                     /\ image_features' = Index(image_features, rows)
                     /\ top_k_scores' = Index(top_k_scores, inc)
                     /\ src' = [seqs |-> Index(src.seqs, inc),
                                scores |-> Index(src.scores, inc),
                                states |-> Index(src.states, rows),
                                feats |-> Index(src.feats, rows)]
                     /\ IF step + 1 < max_caption_len - 1
                          THEN step' = step + 1 /\ pc' = "forward"
                          ELSE step' = step /\ pc' = "exited"
    /\ UNCHANGED <<fixedVars, alphaVars, beam_size, max_caption_len, topkTies, v_mean, prev_words,
                   y_out, scores, top_k_words, prev_seq_inds, next_words,
                   ranked, sorted_sequences>>

\* lines 264-285: fill up from the active beams, sort, return
Backfill == Len(complete_seqs) < beam_size

Finalize ==
    /\ pc = "exited"
    /\ Backfill => step >= 0 /\ InRange(top_k_sequences, incomplete_inds)
    /\ LET seqs == IF Backfill
                     THEN complete_seqs \o Index(top_k_sequences, incomplete_inds)
                     ELSE complete_seqs
           scs == IF Backfill
                     THEN complete_seqs_scores \o Index(top_k_scores, incomplete_inds)
                     ELSE complete_seqs_scores
           als == IF Backfill /\ store_alphas
                     THEN complete_seqs_alpha \o Index(seqs_alpha, incomplete_inds)
                     ELSE complete_seqs_alpha
       IN  /\ complete_seqs' = seqs
           /\ complete_seqs_scores' = scs
           /\ complete_seqs_alpha' = als
           /\ ranked' = SortedReverse(Zip(scs, seqs))
           /\ sorted_sequences' = Sequences2nd(SortedReverse(Zip(scs, seqs)))
           /\ sorted_alphas' = IF store_alphas
                                 THEN Sequences2nd(SortedReverse(Zip(scs, als)))
                                 ELSE sorted_alphas
    /\ pc' = "done"
    /\ UNCHANGED <<fixedVars, seqs_alpha, beam_size, max_caption_len, topkTies, step,
                   current_beam_width, image_features, v_mean, top_k_sequences,
                   top_k_scores, states, prev_words, y_out, scores, top_k_words,
                   prev_seq_inds, next_words, incomplete_inds, complete_inds, src>>

\* line 265 raises NameError: the loop body never ran, incomplete_inds is unbound
FinalizeUnbound ==
    /\ pc = "exited"
    /\ Backfill
    /\ step < 0
    /\ pc' = "error"
    /\ UNCHANGED <<fixedVars, alphaVars, beam_size, max_caption_len, topkTies, step,
                   current_beam_width, image_features, v_mean, top_k_sequences,
                   top_k_scores, states, prev_words, y_out, scores, top_k_words,
                   prev_seq_inds, next_words, incomplete_inds, complete_inds,
                   complete_seqs, complete_seqs_scores, ranked, sorted_sequences, src>>

\* line 265 raises IndexError: top_k_sequences was already cut down to the
\* incomplete rows in line 256 and is indexed with incomplete_inds again
FinalizeIndexError ==
    /\ pc = "exited"
    /\ Backfill
    /\ step >= 0
    /\ ~InRange(top_k_sequences, incomplete_inds)
    /\ pc' = "error"
    /\ UNCHANGED <<fixedVars, alphaVars, beam_size, max_caption_len, topkTies, step,
                   current_beam_width, image_features, v_mean, top_k_sequences,
                   top_k_scores, states, prev_words, y_out, scores, top_k_words,
                   prev_seq_inds, next_words, incomplete_inds, complete_inds,
                   complete_seqs, complete_seqs_scores, ranked, sorted_sequences, src>>

Next ==
    \/ BeamSearchStart
    \/ BeamSearchStartKeyError
    \/ ForwardStep
    \/ ForwardStepSizeMismatch
    \/ ForwardStepNoRows
    \/ TopK
    \/ TopKOutOfRange
    \/ StoreAlphasUnbound
    \/ RetireKeyError
    \/ Retire
    \/ Finalize
    \/ FinalizeUnbound
    \/ FinalizeIndexError

Spec == Init /\ [][Next]_vars

\* ------------------------------------------------- the end-to-end scenario
\* the tokens the step function of the scenario may score highest in a step:
\* cat at first, the end token from step 2 on; "step 2" is the second step
\* (loop index 1) or loop index 2, so either may happen at loop index 1
ScenarioTops(stp) ==
    IF stp = 0 THEN {WordIndex("cat")}
    ELSE IF stp = 1 THEN {WordIndex("cat"), TOKEN_END}
    ELSE {TOKEN_END}

\* the score rows in which token top is scored above all others
ScenarioRows(top) ==
    {row \in [1..vocab_size -> 0..(MaxScore + 1)] :
        \A w \in 1..vocab_size : row[w] = MaxScore + 1 <=> w = top + 1}

InitScenario == InitCall({ScenarioWordMap}, {2}, {4}, {FALSE})

\* a step with the step function of the scenario
ScenarioStep == \E top \in ScenarioTops(step) : StepWith(ScenarioRows(top))

NextScenario ==
    \/ BeamSearchStart
    \/ ScenarioStep
    \/ ForwardStepSizeMismatch
    \/ TopK
    \/ Retire
    \/ Finalize
    \/ FinalizeIndexError

SpecScenario == InitScenario /\ [][NextScenario]_vars

\* ------------------------------------------------ the decode loop forward
\* no beam_search call is under way
BeamIdle ==
    /\ beam_size = 0
    /\ store_alphas = FALSE
    /\ topkTies = "first"
    /\ current_beam_width = 0
    /\ src = SrcIdentity(0)
    /\ BeamLocalsUnbound

\* mutant: the larger of the two
Min2_Larger(a, b) == IF a < b THEN b ELSE a

\* torch.min, element by element
Min2(a, b) == IF a < b THEN a ELSE b

Max(s) == CHOOSE a \in {s[i] : i \in 1..Len(s)} : \A i \in 1..Len(s) : s[i] <= a

\* a target caption of the data loader as forward reads it: the start token,
\* the words, the end token at (0-based) position len, then padding
TargetRow(len, width) ==
    [p \in 1..width |->
        IF p = 1 THEN TOKEN_START
        ELSE IF p - 1 < len THEN WordIndex("cat")
        ELSE IF p - 1 = len THEN TOKEN_END
        ELSE WordIndex("<pad>")]

\* the lengths of a training batch: caption_lengths - 1 (train.py line 312);
\* the rows of a batch can be swapped for one another, the longest comes first
SuppliedLengths(n) ==
    {dl \in [1..n -> 1..MaxCaptionLen] : \A i \in 1..(n - 1) : dl[i] >= dl[i + 1]}

\* torch.eye(num_classes)[index]
OneHot(num_classes, index) ==
    [k \in 1..num_classes |-> IF k = index + 1 THEN 1 ELSE 0]

\* the score rows forward_step gives in the decode loop: the end token or a
\* word scored above all other tokens
DecodeScoreRows ==
    {OneHot(vocab_size, TOKEN_END), OneHot(vocab_size, WordIndex("cat"))}

\* torch.zeros(vocab_size): a buffer entry that was not written
ZeroRow == [k \in 1..vocab_size |-> 0]

\* the values random.random() draws, and the ratio, in halves
RandomDraws == {0, 1}
TeacherForcingRatios == {0, 1, 2}

\* __init__ (lines 17-53) and a call of forward with its arguments; a decoder
\* in inference mode is called without targets and lengths (train.py line 373)
InitForward ==
    /\ word_map \in WordMaps
    /\ training \in BOOLEAN
    /\ batch_size \in 1..MaxBatchSize
    /\ max_caption_len \in 1..MaxCaptionLen
    /\ image_features = [i \in 1..batch_size |-> <<"image", i>>]
    /\ IF training
         THEN /\ HasToken("<start>") /\ HasToken("<end>")
              /\ max_caption_len = MaxCaptionLen
              /\ teacher_forcing_ratio \in TeacherForcingRatios
              /\ decode_lengths \in SuppliedLengths(batch_size)
              /\ target_sequences =
                    [i \in 1..batch_size |->
                        TargetRow(decode_lengths[i], Max(decode_lengths) + 1)]
         ELSE /\ teacher_forcing_ratio = 0
              /\ decode_lengths = <<>>
              /\ target_sequences = <<>>
    /\ hist = [supplied |-> decode_lengths, calls |-> <<>>]
    /\ t = -1
    /\ state = <<>>
    /\ scores_for_timestep = <<>>
    /\ caller = [scores |-> Unbound,
                 decode_lengths |-> IF training THEN Value(decode_lengths) ELSE Unbound,
                 alphas |-> Unbound]
    /\ BeamIdle
    /\ InitParameters
    /\ MainIdle
    /\ pc = "decode_start"

\* mutant: the lengths of inference mode are one short
DefaultLengths_OneLess(n, len) == Full(n, len - 1)

\* torch.full((batch_size,), self.max_caption_len)
DefaultLengths(n, len) == Full(n, len)

\* lines 56-70: the lengths of inference mode, init_inference, the output
\* buffer, the loop header
DecodeStart ==
    /\ pc = "decode_start"
    /\ HasToken("<start>")
    /\ LET dl == IF ~training THEN DefaultLengths(batch_size, max_caption_len)
                              ELSE decode_lengths
       IN  /\ decode_lengths' = dl
           /\ scores' = Full(batch_size, Full(Max(dl), ZeroRow))
           /\ IF Max(dl) > 0
                THEN t' = 0 /\ pc' = "decode"
                ELSE t' = t /\ pc' = "returned"
    /\ v_mean' = [i \in 1..batch_size |-> <<"mean", image_features[i]>>]
    /\ state' = InitInference(batch_size).state
    /\ prev_words' = InitInference(batch_size).start_word
    /\ UNCHANGED <<beamVars, paramVars, mainVars, caller, word_map, max_caption_len, image_features, training,
                   teacher_forcing_ratio, batch_size, target_sequences,
                   scores_for_timestep, hist>>

\* line 130 raises KeyError: the word map has no start token
DecodeStartKeyError ==
    /\ pc = "decode_start"
    /\ ~HasToken("<start>")
    /\ pc' = "error"
    /\ UNCHANGED <<beamVars, paramVars, mainVars, caller, word_map, max_caption_len, image_features, v_mean,
                   prev_words, scores, decodeVars>>

\* line 73 raises KeyError: the word map has no end token
DecodeKeyError ==
    /\ pc = "decode"
    /\ ~HasToken("<end>")
    /\ pc' = "error"
    /\ UNCHANGED <<beamVars, paramVars, mainVars, caller, word_map, max_caption_len, image_features, v_mean,
                   prev_words, scores, decodeVars>>

\* mutant: the end token does not shorten a sequence
ClampedLengths_NoClamp(dl, words, tt) == dl

\* lines 72-80: the rows whose previous word is the end token get the length
\* min(length, t)
ClampedLengths(dl, words, tt) ==
    [i \in 1..Len(dl) |->
        IF words[i] = TOKEN_END THEN Min2(dl[i], tt) ELSE dl[i]]

\* mutant: a sequence of length t is still taken as incomplete at step t
IncompleteSequences_AtLeast(dl, tt) ==
    SelectSeq(Arange(Len(dl)), LAMBDA j : dl[j + 1] >= tt)

\* torch.nonzero(decode_lengths > t).view(-1)
IncompleteSequences(dl, tt) ==
    SelectSeq(Arange(Len(dl)), LAMBDA j : dl[j + 1] > tt)

\* mutant: the comparison with the ratio is not strict
UseTeacherForcing_Inclusive(r) == training /\ r <= teacher_forcing_ratio

\* lines 113-119: random.random() < self.teacher_forcing_ratio, in training
UseTeacherForcing(r) == training /\ r < teacher_forcing_ratio

\* lines 121-126
UpdatePreviousWord(y, target_words, tt, use_teacher_forcing) ==
    IF use_teacher_forcing
      THEN [i \in 1..Len(y) |-> target_words[i][tt + 2]]
      ELSE [i \in 1..Len(y) |-> ArgMax(y[i])]

\* lines 71-85: all sequences are finished, the loop is left
DecodeBreak ==
    /\ pc = "decode"
    /\ HasToken("<end>")
    /\ LET dl == ClampedLengths(decode_lengths, prev_words, t)
       IN  /\ IncompleteSequences(dl, t) = <<>>
           /\ decode_lengths' = dl
    /\ pc' = "returned"
    /\ UNCHANGED <<beamVars, paramVars, mainVars, caller, word_map, max_caption_len, image_features, v_mean,
                   prev_words, scores, training, teacher_forcing_ratio,
                   batch_size, target_sequences, t, state, scores_for_timestep,
                   hist>>

\* lines 71-97 and the loop header: one iteration that runs the step function
DecodeStep ==
    /\ pc = "decode"
    /\ HasToken("<end>")
    /\ LET dl == ClampedLengths(decode_lengths, prev_words, t)
           inc == IncompleteSequences(dl, t)
       IN  /\ inc # <<>>
           /\ decode_lengths' = dl
           /\ \E y \in [1..batch_size -> DecodeScoreRows] : \E r \in RandomDraws :
                 LET nxt == UpdatePreviousWord(y, target_sequences, t,
                                               UseTeacherForcing(r))
                 IN  /\ scores_for_timestep' = y
                     /\ prev_words' = nxt
                     /\ scores' =
                           [i \in 1..batch_size |->
                               IF \E k \in 1..Len(inc) : inc[k] = i - 1
                                 THEN [scores[i] EXCEPT ![t + 1] = y[i]]
                                 ELSE scores[i]]
                     /\ hist' = [hist EXCEPT !.calls =
                           Append(@, [t |-> t, rows |-> inc, y |-> y,
                                      teacher |-> UseTeacherForcing(r),
                                      chosen |-> nxt])]
    /\ state' = [k \in 1..Len(StateNames) |->
                    [i \in 1..batch_size |-> Append(state[k][i], prev_words[i])]]
    /\ IF t + 1 < Len(scores[1])
         THEN t' = t + 1 /\ pc' = "decode"
         ELSE t' = t /\ pc' = "returned"
    /\ UNCHANGED <<beamVars, paramVars, mainVars, caller, word_map, max_caption_len, image_features, v_mean,
                   training, teacher_forcing_ratio, batch_size, target_sequences>>

\* line 100: what forward returns
ForwardResult == <<Value(scores), None, Value(decode_lengths)>>

\* train.py lines 314-316 (train) and line 373 (validate): the epoch function
\* unpacks what the decoder returned into scores, decode_lengths, alphas; the
\* other locals of the call that returned are gone
BindResult ==
    /\ pc = "returned"
    /\ caller' = [scores |-> ForwardResult[1],
                  decode_lengths |-> ForwardResult[2],
                  alphas |-> ForwardResult[3]]
    /\ pc' = "bound"
    /\ t' = -1
    /\ state' = <<>>
    /\ scores_for_timestep' = <<>>
    /\ prev_words' = <<>>
    /\ v_mean' = <<>>
    /\ hist' = [supplied |-> hist.supplied, calls |-> <<>>]
    /\ UNCHANGED <<beamVars, paramVars, mainVars, word_map, max_caption_len,
                   image_features, scores, training, teacher_forcing_ratio,
                   batch_size, target_sequences, decode_lengths>>

NextForward ==
    \/ DecodeStart
    \/ DecodeStartKeyError
    \/ DecodeKeyError
    \/ DecodeBreak
    \/ DecodeStep
    \/ BindResult

SpecForward == InitForward /\ [][NextForward]_vars

\* ======================================================================
\* Properties of beam_search
\* ======================================================================

\* C1: when the step loop has exited (by break or by exhausting its range),
\* the number of hypotheses already moved to the completed collection plus
\* current_beam_width equals beam_size.
C1_Conservation ==
    pc = "exited" => Len(complete_seqs) + current_beam_width = beam_size

\* the loop ran out of steps with some beams completed and some still active
C1_Witness ==
    /\ pc = "exited"
    /\ Len(complete_seqs) > 0
    /\ current_beam_width > 0

\* C2: current_beam_width starts at beam_size and no step of beam_search
\* ever increases it.
C2_WidthNeverIncreases ==
    /\ current_beam_width = beam_size
    /\ [][current_beam_width' <= current_beam_width]_vars

\* a step has begun after the beam has shrunk
C2_Witness ==
    /\ pc = "forward"
    /\ step >= 1
    /\ current_beam_width < beam_size

\* C3: after t+1 steps (loop index step = t) every sequence in
\* top_k_sequences has exactly t+2 tokens and begins with the start token;
\* while step t is still to extend the sequences they have t+1 tokens.
C3_SequenceLength ==
    \A i \in 1..Len(top_k_sequences) :
        /\ top_k_sequences[i][1] = TOKEN_START
        /\ pc \in {"retire", "exited"} => Len(top_k_sequences[i]) = step + 2
        /\ pc \in {"forward", "topk"} => Len(top_k_sequences[i]) = step + 1

\* the second step has extended the sequences of a beam of two or more
C3_Witness ==
    /\ pc = "retire"
    /\ step = 1
    /\ Len(top_k_sequences) >= 2
    /\ Len(top_k_sequences[2]) = 3

\* C4: at the start of every step the active sequences, the cumulative
\* scores, each of the four decoder state vectors and the running image
\* features have exactly current_beam_width rows, and row i of each of them
\* was taken from the same row of the step before.
C4_ParallelRows ==
    pc = "forward" =>
        /\ Len(top_k_sequences) = current_beam_width
        /\ Len(top_k_scores) = current_beam_width
        /\ \A k \in 1..Len(StateNames) : Len(states[k]) = current_beam_width
        /\ Len(image_features) = current_beam_width
        /\ src.scores = src.seqs
        /\ src.states = src.seqs
        /\ src.feats = src.seqs

\* a step begins after a beam was retired and the survivors were not the
\* first rows
C4_Witness ==
    /\ pc = "forward"
    /\ step >= 1
    /\ current_beam_width < beam_size
    /\ incomplete_inds # Arange(current_beam_width)

\* C5: at every step every per-row input of the step function has exactly
\* current_beam_width rows.  (Stated as claimed; the code violates it.)
C5_StepInputRows ==
    pc = "forward" =>
        /\ \A k \in 1..Len(StateNames) : Len(states[k]) = current_beam_width
        /\ Len(prev_words) = current_beam_width
        /\ Len(v_mean) = current_beam_width
        /\ Len(image_features) = current_beam_width

\* C6: at every step after the first, the previous token fed to the step
\* function for active row i is the last token of active sequence i.
\* (Stated as claimed; the code violates it.)
C6_PrevWordIsLastToken ==
    (pc = "forward" /\ step >= 1) =>
        \A i \in 1..Len(top_k_sequences) :
            i <= Len(prev_words) /\ prev_words[i] = Last(top_k_sequences[i])

\* C7: for beam_size > 1 the sequences held after step 0 are beam_size many
\* and their first tokens (behind the start token) are pairwise distinct.
C7_FirstStepDistinct ==
    (pc = "retire" /\ step = 0 /\ beam_size > 1) =>
        /\ Len(top_k_sequences) = beam_size
        /\ \A i, j \in 1..Len(top_k_sequences) :
              i # j => top_k_sequences[i][2] # top_k_sequences[j][2]

\* step 0 has chosen the words of a beam of three or more
C7_Witness ==
    /\ pc = "retire"
    /\ step = 0
    /\ beam_size >= 3
    /\ Len(top_k_sequences) = beam_size

\* C8: at every step after the first, the matrix handed to topk has entry
\* (r, w) = cumulative score of row r + step score of token w, the survivors
\* are current_beam_width distinct entries none of which is smaller than an
\* entry left out, each flat index f is decoded as row f div vocab_size and
\* token f mod vocab_size, and the survivor's new score is the entry at f.
C8_GlobalTopK ==
    /\ (pc = "topk" /\ step >= 1) =>
          /\ Len(scores) = current_beam_width * vocab_size
          /\ \A r \in 1..current_beam_width : \A w \in 1..vocab_size :
                scores[(r - 1) * vocab_size + w] = top_k_scores[r] + y_out[r][w]
    /\ (pc = "retire" /\ step >= 1) =>
          /\ Len(top_k_words) = current_beam_width
          /\ \A i, j \in 1..Len(top_k_words) : i # j => top_k_words[i] # top_k_words[j]
          /\ \A i \in 1..Len(top_k_words) :
                /\ top_k_words[i] \in 0..(Len(scores) - 1)
                /\ top_k_scores[i] = scores[top_k_words[i] + 1]
                /\ prev_seq_inds[i] = top_k_words[i] \div vocab_size
                /\ next_words[i] = top_k_words[i] % vocab_size
                /\ Last(top_k_sequences[i]) = next_words[i]
                /\ \A g \in 1..Len(scores) :
                      (\A j \in 1..Len(top_k_words) : top_k_words[j] # g - 1)
                          => scores[g] <= top_k_scores[i]
          /\ \A i \in 1..(Len(top_k_scores) - 1) : top_k_scores[i] >= top_k_scores[i + 1]

\* a later step has chosen survivors of which one stems from another row
\* than the first and two differ in score
C8_Witness ==
    /\ pc = "retire"
    /\ step >= 1
    /\ current_beam_width >= 2
    /\ \E i \in 1..Len(prev_seq_inds) : prev_seq_inds[i] # 0
    /\ top_k_scores[1] > top_k_scores[Len(top_k_scores)]

\* C9: beam_search returns at most beam_size hypotheses, each with the score
\* it was completed with, and no hypothesis has a smaller score than the
\* one behind it.
C9_RankedDescending ==
    pc = "done" =>
        /\ Len(sorted_sequences) <= beam_size
        /\ Len(ranked) = Len(sorted_sequences)
        /\ \A i \in 1..Len(ranked) :
              /\ ranked[i][2] = sorted_sequences[i]
              /\ \E j \in 1..Len(complete_seqs) :
                    ranked[i] = <<complete_seqs_scores[j], complete_seqs[j]>>
        /\ \A i \in 1..(Len(ranked) - 1) : ranked[i][1] >= ranked[i + 1][1]

\* hypotheses were returned whose scores had been collected in ascending order
C9_Witness ==
    /\ pc = "done"
    /\ Len(sorted_sequences) >= 2
    /\ \E i, j \in 1..Len(complete_seqs_scores) :
          i < j /\ complete_seqs_scores[i] < complete_seqs_scores[j]

\* stable descending sort on the score alone
StableByScore(pairs) ==
    LET pos(i) == Cardinality({j \in 1..Len(pairs) : pairs[j][1] > pairs[i][1]})
                  + Cardinality({j \in 1..(i - 1) : pairs[j][1] = pairs[i][1]}) + 1
    IN  [r \in 1..Len(pairs) |-> pairs[CHOOSE i \in 1..Len(pairs) : pos(i) = r]]

\* C10: finalization is a stable descending sort on the score: hypotheses
\* with equal scores are returned in the order in which they were put into
\* the completed collection.  (Stated as claimed; the code violates it.)
C10_TiesKeepInsertionOrder ==
    pc = "done" =>
        sorted_sequences =
            Sequences2nd(StableByScore(Zip(complete_seqs_scores, complete_seqs)))

\* the word map has both reserved tokens
HasReservedTokens == HasToken("<start>") /\ HasToken("<end>")

\* C11: when the step loop has run out of steps with beams still active,
\* the return appends exactly the active sequences and their scores to the
\* completed collection and the returned list has beam_size hypotheses,
\* also when other beams ended in that last step.  (Stated as claimed; the
\* code violates it.)
C11_LastStepBackfill ==
    [][(pc = "exited" /\ step >= 0 /\ current_beam_width > 0) =>
          /\ pc' = "done"
          /\ complete_seqs' = complete_seqs \o top_k_sequences
          /\ complete_seqs_scores' = complete_seqs_scores \o top_k_scores
          /\ Len(sorted_sequences') = beam_size]_vars

\* C13: a call with beam_size = 0 ends in an error and never returns a
\* hypothesis list.  (Stated as claimed; the code violates it.)
C13_ZeroBeamRejected ==
    beam_size = 0 => pc # "done"

\* C14: no decoder is constructed with a word map that lacks the start or
\* the end token, so no decode call is ever under way with such a word map.
\* (Stated as claimed; the code violates it.)
C14_MalformedVocabularyRejected ==
    pc # "error" => HasReservedTokens

\* C15: a call with beam_size larger than the vocabulary does not fail.
\* (Stated as claimed; the code violates it.)
C15_WideBeamReturns ==
    (/\ beam_size > vocab_size
     /\ max_caption_len > 1
     /\ HasReservedTokens
     /\ ~store_alphas) => pc # "error"

\* C16: a call with store_alphas = True completes and returns, next to the
\* ranked sequences, as many attention traces, trace i belonging to
\* sequence i.  (Stated as claimed; the code violates it.)
C16_AlphasReturned ==
    (/\ store_alphas
     /\ beam_size \in 1..vocab_size
     /\ max_caption_len > 1
     /\ HasReservedTokens) =>
        /\ pc # "error"
        /\ pc = "done" => Len(sorted_alphas) = Len(sorted_sequences)

\* the end token is the last token of seq and occurs nowhere else in it
EndsOnlyAtEnd(seq) ==
    /\ Last(seq) = TOKEN_END
    /\ \A k \in 1..(Len(seq) - 1) : seq[k] # TOKEN_END

\* C18: every hypothesis put into the completed collection inside the step
\* loop ends with the end token and holds it nowhere else, no active
\* sequence holds the end token, and no step changes or removes a completed
\* hypothesis or its score.
C18_CompletedHypotheses ==
    /\ [](HasToken("<end>") =>
            /\ pc # "done" =>
                  \A i \in 1..Len(complete_seqs) : EndsOnlyAtEnd(complete_seqs[i])
            /\ (pc \in {"forward", "topk"} \/ (pc = "exited" /\ current_beam_width > 0)) =>
                  \A i \in 1..Len(top_k_sequences) :
                      \A k \in 1..Len(top_k_sequences[i]) :
                          top_k_sequences[i][k] # TOKEN_END)
    /\ [][\A i \in 1..Len(complete_seqs) :
              /\ i <= Len(complete_seqs')
              /\ i <= Len(complete_seqs_scores')
              /\ complete_seqs'[i] = complete_seqs[i]
              /\ complete_seqs_scores'[i] = complete_seqs_scores[i]]_vars

\* a call has returned after the loop had completed a hypothesis in its
\* last step and the sequence of a beam still active was put behind it
C18_Witness ==
    /\ pc = "done"
    /\ HasToken("<end>")
    /\ Len(complete_seqs) >= 2
    /\ EndsOnlyAtEnd(complete_seqs[1])
    /\ Last(complete_seqs[Len(complete_seqs)]) # TOKEN_END

\* C19: for beam_size >= 1 and max_caption_len >= 1 the call does not run
\* the step function more than max_caption_len - 1 times and then returns a
\* list in which no sequence has more than max_caption_len tokens.
\* (Stated as claimed; the code violates it.)
C19_TerminatesAndReturns ==
    (/\ beam_size \in 1..vocab_size
     /\ HasReservedTokens
     /\ ~store_alphas) =>
        /\ pc # "error"
        /\ step <= max_caption_len - 2
        /\ pc = "done" =>
              \A i \in 1..Len(sorted_sequences) :
                  Len(sorted_sequences[i]) <= max_caption_len

\* C17: in the scenario (word map pad, start, end, cat, dog; beam_size 2;
\* max_caption_len 4; cat scored highest, then the end token) the call
\* returns one or two hypotheses, each of them [start, cat, end], ranked by
\* their scores.  (Stated as claimed; the code violates it.)
C17_ScenarioResult ==
    /\ pc # "error"
    /\ pc = "done" =>
          /\ Len(sorted_sequences) \in {1, 2}
          /\ \A i \in 1..Len(sorted_sequences) :
                sorted_sequences[i] = <<TOKEN_START, WordIndex("cat"), TOKEN_END>>
          /\ \A i \in 1..(Len(ranked) - 1) : ranked[i][1] >= ranked[i + 1][1]

\* ======================================================================
\* Properties of the decode loop
\* ======================================================================

BehindNextUpdate(k) == k < Len(hist.calls) \/ pc = "returned"

\* the loop is not left while a sequence is still to be decoded
LoopGoesOn ==
    pc = "returned" =>
        \/ \A i \in 1..batch_size : decode_lengths[i] <= t
        \/ t + 1 = Len(scores[1])

\* C21 as claimed: in training mode as in inference mode, a sequence whose
\* arg-max output at step t-1 was the end token has its decode length
\* clamped to at most t at step t, while the loop goes on for the others.
\* (The code violates it under teacher forcing.)
C21_ArgMaxEndClamps ==
    /\ \A k \in 1..Len(hist.calls) : \A i \in 1..batch_size :
          (ArgMax(hist.calls[k].y[i]) = TOKEN_END /\ BehindNextUpdate(k)) =>
              decode_lengths[i] <= hist.calls[k].t + 1
    /\ LoopGoesOn

\* C21, amended: a sequence whose next previous-token chosen at step t-1
\* (the arg-max output, or the target token when teacher forcing was drawn)
\* was the end token has its decode length clamped to at most t at step t,
\* while the loop goes on for the others.
C21_ChosenEndClamps ==
    /\ \A k \in 1..Len(hist.calls) : \A i \in 1..batch_size :
          (hist.calls[k].chosen[i] = TOKEN_END /\ BehindNextUpdate(k)) =>
              decode_lengths[i] <= hist.calls[k].t + 1
    /\ LoopGoesOn

\* in training mode a sequence was cut short at step 1 by the end token it
\* produced at step 0, and the step function was called again for another
C21_Witness ==
    /\ training
    /\ Len(hist.calls) >= 2
    /\ \E i \in 1..batch_size :
          /\ hist.calls[1].chosen[i] = TOKEN_END
          /\ hist.supplied[i] > 1
          /\ decode_lengths[i] = 1
    /\ hist.calls[2].rows # <<>>

\* C22: when the decode loop returns, scores[i, t, :] holds what the step
\* function gave for row i at step t if t < decode_lengths[i] (as returned),
\* and is all zeros otherwise.
C22_BufferMatchesLengths ==
    pc = "returned" =>
        \A i \in 1..batch_size : \A tt \in 1..Len(scores[i]) :
            IF tt - 1 < decode_lengths[i]
              THEN /\ tt <= Len(hist.calls)
                   /\ hist.calls[tt].t = tt - 1
                   /\ scores[i][tt] = hist.calls[tt].y[i]
              ELSE scores[i][tt] = ZeroRow

\* the loop has returned with a sequence that ended early, while the step
\* function still gave scores for its row at a later step, and with another
\* sequence decoded over two steps or more
C22_Witness ==
    /\ pc = "returned"
    /\ \E i, j \in 1..batch_size :
          /\ decode_lengths[i] < Len(hist.calls)
          /\ decode_lengths[i] >= 1
          /\ decode_lengths[j] >= 2
          /\ decode_lengths[j] = Len(hist.calls)

C24_NextPreviousToken ==
    \A k \in 1..Len(hist.calls) :
        LET call == hist.calls[k]
        IN  /\ ~training => ~call.teacher
            /\ (training /\ teacher_forcing_ratio = 0) => ~call.teacher
            /\ (training /\ teacher_forcing_ratio = 2) => call.teacher
            /\ \A i \in 1..batch_size :
                  call.chosen[i] = IF call.teacher
                                     THEN target_sequences[i][call.t + 2]
                                     ELSE ArgMax(call.y[i])

\* with a ratio between 0 and 1 the target token was chosen at one step
\* against the arg-max, and the arg-max at another step against the target
C24_Witness ==
    /\ training
    /\ teacher_forcing_ratio = 1
    /\ \E k, l \in 1..Len(hist.calls) : \E i \in 1..batch_size :
          /\ hist.calls[k].teacher
          /\ hist.calls[k].chosen[i] # ArgMax(hist.calls[k].y[i])
          /\ ~hist.calls[l].teacher
          /\ hist.calls[l].chosen[i] # target_sequences[i][hist.calls[l].t + 2]

\* the length the caller handed in for row i (max_caption_len when none)
SuppliedLength(i) ==
    IF hist.supplied = <<>> THEN max_caption_len ELSE hist.supplied[i]

\* the calls of the step function after which the end token was chosen for
\* row i; call k is the one of timestep k - 1
EndCalls(i) == {k \in 1..Len(hist.calls) : hist.calls[k].chosen[i] = TOKEN_END}

\* one plus the index of the first timestep whose chosen token was the end
\* token for row i
FirstEndPlusOne(i) == CHOOSE k \in EndCalls(i) : \A l \in EndCalls(i) : k <= l

PairwiseDistinct(seqs) ==
    \A i, j \in 1..Len(seqs) : i # j => seqs[i] # seqs[j]

\* C30 as claimed: for beam_size <= vocabulary size no two active sequences
\* are ever identical and no two returned hypotheses are identical.  (The
\* beam starts as beam_size copies of the start-only sequence.)
C30_NeverIdentical ==
    beam_size <= vocab_size =>
        /\ pc \in {"forward", "topk", "retire", "exited"} =>
              PairwiseDistinct(top_k_sequences)
        /\ pc = "done" => PairwiseDistinct(sorted_sequences)

\* C30, amended: for beam_size <= vocabulary size, once step 0 has chosen
\* the sequences no two active sequences are identical, and no two returned
\* hypotheses are identical.
C30_DistinctFromFirstStep ==
    beam_size <= vocab_size =>
        /\ (\/ pc \in {"forward", "topk"} /\ step >= 1
            \/ pc \in {"retire", "exited"} /\ step >= 0) =>
              PairwiseDistinct(top_k_sequences)
        /\ pc = "done" => PairwiseDistinct(sorted_sequences)

\* a call of two steps or more has returned three hypotheses or more
C30_Witness ==
    /\ pc = "done"
    /\ step >= 1
    /\ Len(sorted_sequences) >= 3

\* ------------------------------------------- the epoch functions' binding
\* C27: the value that train and validate bind to decode_lengths behind the
\* decoder call is the tensor of decode lengths that forward produced
C27_LengthsBoundToDecodeLengths ==
    pc = "bound" => caller.decode_lengths = Value(decode_lengths)

\* ------------------------------------------------ calls of either decoder
\* a call of beam_search for a caption of up to three tokens, or a call of
\* forward for one image
InitDecode ==
    \/ InitCall(WordMaps, 0..MaxBeamSize, 1..3, BOOLEAN)
    \/ (InitForward /\ batch_size = 1)

NextDecode == Next \/ NextForward

SpecDecode == InitDecode /\ [][NextDecode]_vars

\* the state rows that init_inference builds for n sequences
RebuiltState(n) == <<Full(n, h1), Full(n, c1), Full(n, h2), Full(n, c2)>>

\* the first step of a call is about to run on the state of init_inference
StartsFromStoredVectors ==
    /\ (pc = "forward" /\ step = 0) => states = RebuiltState(beam_size)
    /\ (pc = "decode" /\ t = 0) => state = RebuiltState(batch_size)

\* a step of a call writes neither the stored vectors nor a row of the image
\* features: the rows it goes on with are rows it had
KeepsFeaturesAndVectors ==
    /\ UNCHANGED paramVars
    /\ \A i \in 1..Len(image_features') :
          \E j \in 1..Len(image_features) : image_features'[i] = image_features[j]

MODEL_SHOW_ATTEND_TELL == "SHOW_ATTEND_TELL"
MODEL_BOTTOM_UP_TOP_DOWN == "BOTTOM_UP_TOP_DOWN"
KnownModelNames == {MODEL_SHOW_ATTEND_TELL, MODEL_BOTTOM_UP_TOP_DOWN}
ModelNames == KnownModelNames \cup {"RANKING"}

\* a validation score (BLEU-4), in steps of 1 / MaxMetric
MetricScores == 0..MaxMetric

\* the dictionaries torch.load can give: the keys that main reads
Checkpoints ==
    [epoch : {0},
     epochs_since_improvement : 0..1,
     generation_metric_score : {0, 1},
     model_name : ModelNames]

\* the module's globals (lines 38-39) and a call of main with its arguments
InitMain ==
    /\ model_name \in ModelNames
    /\ checkpoint \in {None} \cup {Value(c) : c \in Checkpoints}
    /\ epochs \in 0..MaxEpochs
    /\ epochs_early_stopping \in 1..MaxEpochs
    /\ start_epoch = 0
    /\ epoch = -1
    /\ epochs_since_last_improvement = 0
    /\ best_generation_metric_score = 0
    /\ current_generation_metric_score = 0
    /\ train_images_loader = Unbound
    /\ exception = ""
    /\ epoch_log = <<>>
    /\ word_map = WordMap
    /\ max_caption_len = MaxCaptionLen
    /\ image_features = <<>>
    /\ BeamIdle
    /\ DecodeIdle
    /\ InitParameters
    /\ pc = "main"

notMain == <<word_map, max_caption_len, image_features, v_mean, prev_words, scores,
             beamVars, decodeVars, paramVars>>

\* lines 73-92: the checkpoint is given
LoadCheckpoint ==
    /\ pc = "main"
    /\ checkpoint # None
    /\ start_epoch' = checkpoint.value.epoch + 1
    /\ epochs_since_last_improvement' = checkpoint.value.epochs_since_improvement
    /\ best_generation_metric_score' = checkpoint.value.generation_metric_score
    /\ model_name' = checkpoint.value.model_name
    /\ pc' = "loaders"
    /\ UNCHANGED <<notMain, checkpoint, epochs, epochs_early_stopping, epoch,
                   current_generation_metric_score, train_images_loader, exception,
                   epoch_log>>

\* lines 94-127: no checkpoint, the model is built for a known name
InitializeModel ==
    /\ pc = "main"
    /\ checkpoint = None
    /\ model_name \in KnownModelNames
    /\ pc' = "loaders"
    /\ UNCHANGED <<notMain, mainVars>>

\* lines 129-130
UnknownModelName ==
    /\ pc = "main"
    /\ checkpoint = None
    /\ model_name \notin KnownModelNames
    /\ exception' = "RuntimeError: Unknown model name"
    /\ pc' = "error"
    /\ UNCHANGED <<notMain, model_name, checkpoint, epochs, epochs_early_stopping,
                   start_epoch, epoch, epochs_since_last_improvement,
                   best_generation_metric_score, current_generation_metric_score,
                   train_images_loader, epoch_log>>

\* lines 133-207: the data loaders of the two known names (no else branch),
\* the loop header
DataLoaders ==
    /\ pc = "loaders"
    /\ train_images_loader' = IF model_name \in KnownModelNames
                                THEN Value(model_name)
                                ELSE train_images_loader
    /\ epoch' = start_epoch
    /\ pc' = "epoch"
    /\ UNCHANGED <<notMain, model_name, checkpoint, epochs, epochs_early_stopping,
                   start_epoch, epochs_since_last_improvement,
                   best_generation_metric_score, current_generation_metric_score,
                   exception, epoch_log>>

\* line 207: range(start_epoch, epochs) is used up
LoopEnd ==
    /\ pc = "epoch"
    /\ epoch >= epochs
    /\ pc' = "finished"
    /\ UNCHANGED <<notMain, mainVars>>

\* lines 208-214
EarlyStopping ==
    /\ pc = "epoch"
    /\ epoch < epochs
    /\ epochs_since_last_improvement >= epochs_early_stopping
    /\ pc' = "finished"
    /\ UNCHANGED <<notMain, mainVars>>

\* lines 216-226: the call of train reads train_images_loader
TrainEpoch ==
    /\ pc = "epoch"
    /\ epoch < epochs
    /\ epochs_since_last_improvement < epochs_early_stopping
    /\ IF train_images_loader = Unbound
         THEN exception' = "UnboundLocalError" /\ pc' = "error"
         ELSE exception' = exception /\ pc' = "validate"
    /\ UNCHANGED <<notMain, model_name, checkpoint, epochs, epochs_early_stopping,
                   start_epoch, epoch, epochs_since_last_improvement,
                   best_generation_metric_score, current_generation_metric_score,
                   train_images_loader, epoch_log>>

\* mutant: a score that equals the best counts as an improvement
IsBest_NotWorse(current, best) == current >= best

\* lines 232-234: current_checkpoint_is_best
IsBest(current, best) == current > best

\* lines 228-260: the validation score, the two globals, the next epoch
ValidateEpoch ==
    /\ pc = "validate"
    /\ \E score \in MetricScores :
          /\ current_generation_metric_score' = score
          /\ IF IsBest(score, best_generation_metric_score)
               THEN /\ best_generation_metric_score' = score
                    /\ epochs_since_last_improvement' = 0
               ELSE /\ best_generation_metric_score' = best_generation_metric_score
                    /\ epochs_since_last_improvement' = epochs_since_last_improvement + 1
          /\ epoch_log' = Append(epoch_log, score)
    /\ epoch' = epoch + 1
    /\ pc' = "epoch"
    /\ UNCHANGED <<notMain, model_name, checkpoint, epochs, epochs_early_stopping,
                   start_epoch, train_images_loader, exception>>

NextMain ==
    \/ LoadCheckpoint
    \/ InitializeModel
    \/ UnknownModelName
    \/ DataLoaders
    \/ LoopEnd
    \/ EarlyStopping
    \/ TrainEpoch
    \/ ValidateEpoch

SpecMain == InitMain /\ [][NextMain]_vars

\* C25: an unknown model name makes main raise the 'Unknown model name' error
\* in front of the data loaders, whether the name is the argument or the one
\* of the loaded checkpoint
C25_UnknownModelNameIsFatal ==
    (pc # "main" /\ model_name \notin KnownModelNames)
        => (pc = "error" /\ exception = "RuntimeError: Unknown model name")

\* --------------------------------------------- the epoch loop's two globals
\* what the two globals hold in front of the first epoch of the call
BestAtStart ==
    IF checkpoint = None THEN 0 ELSE checkpoint.value.generation_metric_score

SinceAtStart ==
    IF checkpoint = None THEN 0 ELSE checkpoint.value.epochs_since_improvement

\* the best score in front of the i-th epoch of the call
RECURSIVE BestBefore(_)
BestBefore(i) ==
    IF i = 1 THEN BestAtStart
    ELSE LET b == BestBefore(i - 1)
         IN  IF epoch_log[i - 1] > b THEN epoch_log[i - 1] ELSE b

Improved(i) == epoch_log[i] > BestBefore(i)

\* the number of most recent consecutive epochs without an improvement, the
\* epochs in front of the checkpoint included
TrailingWithoutImprovement ==
    IF \E i \in 1..Len(epoch_log) : Improved(i)
      THEN LET last == CHOOSE i \in 1..Len(epoch_log) :
                          /\ Improved(i)
                          /\ \A j \in (i + 1)..Len(epoch_log) : ~Improved(j)
           IN  Len(epoch_log) - last
      ELSE SinceAtStart + Len(epoch_log)

CounterMatchesLog ==
    pc \in {"epoch", "validate", "finished"}
        => epochs_since_last_improvement = TrailingWithoutImprovement

BestNeverDecreases ==
    best_generation_metric_score' >= best_generation_metric_score

EpochStartsBelowLimit ==
    (pc = "epoch" /\ pc' = "validate")
        => epochs_since_last_improvement < epochs_early_stopping

\* C29: in main the best score never decreases, the counter is the number of
\* most recent consecutive epochs whose score did not strictly exceed the best
\* score before them, and no training epoch starts once the counter has
\* reached epochs_early_stopping
C29_BestAndCounter ==
    /\ []CounterMatchesLog
    /\ [][BestNeverDecreases /\ EpochStartsBelowLimit]_vars

\* an epoch repeated the best score and the loop stopped early behind it
C29_Witness ==
    /\ pc = "finished"
    /\ epoch < epochs
    /\ Len(epoch_log) >= 2
    /\ epoch_log[Len(epoch_log)] = best_generation_metric_score
    /\ epochs_since_last_improvement = 1
    /\ best_generation_metric_score > BestAtStart

====
